---- MODULE Spec2Model ----
(***************************************************************************)
(* DPM-Core: the package catalog (RepoInfo) of src/src/lib.rs, its local   *)
(* mutation operations (feature "server"), its refresh from a remote       *)
(* manifest, descriptor fetch and artifact download (feature "client") and *)
(* the JSON document format of the catalog.                                *)
(*                                                                         *)
(* Spec runs the registry operations and the refresh; FetchSpec adds the   *)
(* descriptor fetch and the download, the latter one step per await, with  *)
(* the HTTP exchanges made and the files of the temporary directory.       *)
(*                                                                         *)
(* Encoding of the Rust values:                                            *)
(*   String            a string                                            *)
(*   Option<T>         None is <<"None">>, Some(v) is <<"Some", v>>        *)
(*   Dependency        [name, version]                                     *)
(*   PackageBasicInfo  [url, file_name, version, hash, dependencies,       *)
(*                      entry, description]                                *)
(*   HashMap<K, V>     a function whose DOMAIN is the set of keys held     *)
(*   CoreResult<T>     Ok(v) is <<"Ok", v>>, Err(e) is <<"Err", e>>        *)
(*   a JSON document   a tree: JNull, JStr(s), JArr(seq), JObj(members)    *)
(***************************************************************************)
EXTENDS Integers, Sequences, FiniteSets, TLC

VARIABLES
    packages,   \* RepoInfo.packages: HashMap<String, PackageBasicInfo>
    call,       \* the last operation called on the registry, with its arguments
    result,     \* what that operation returned
    profile,    \* which value sets the caller draws arguments from (fixed per run)
    requests,   \* the HTTP exchanges the last operation made, in order
    files,      \* the temporary directory: file name -> the pieces the file holds
    pc,         \* where a running fetch_package stands; "idle" when no call is running
    local       \* the local values of the running or last fetch_package

vars == <<packages, call, result, profile, requests, files, pc, local>>

-----------------------------------------------------------------------------
(* Bounds of the model *)

\* longest dependency list a caller passes
MaxDeps == 2

\* most chunks an artifact body arrives in
MaxChunks == 2

-----------------------------------------------------------------------------
(* Rust values *)

None == <<"None">>
Some(v) == <<"Some", v>>
IsSome(o) == o[1] = "Some"

\* Option::unwrap_or_default for Option<String>: the value, or String::default() = ""
unwrap_or_default(o) == IF IsSome(o) THEN o[2] ELSE ""

Unit == << >>
Ok(v) == <<"Ok", v>>
Err(e) == <<"Err", e>>
IsOk(r) == r[1] = "Ok"
IsErr(r) == r[1] = "Err"

\* CoreError variants raised by the modelled operations
PackageNotFound(name) == <<"PackageNotFound", name>>
NetworkError(msg) == <<"NetworkError", msg>>
JsonError == <<"JsonError">>
IoError(kind) == <<"IoError", kind>>
HashMismatch(expected, actual) == <<"HashMismatch", expected, actual>>

Dependency(name, version) == [name |-> name, version |-> version]

PackageBasicInfo(url, file_name, version, hash, dependencies, entry, description) ==
    [url |-> url, file_name |-> file_name, version |-> version, hash |-> hash,
     dependencies |-> dependencies, entry |-> entry, description |-> description]

\* RepoInfo::new: an empty package map
EmptyMap == [n \in {} |-> None]

\* HashMap::insert: the map with key k bound to v, any earlier binding of k replaced
Insert(m, k, v) == [x \in (DOMAIN m) \cup {k} |-> IF x = k THEN v ELSE m[x]]

\* HashMap::remove: the map without key k
Without(m, k) == [x \in (DOMAIN m) \ {k} |-> m[x]]

-----------------------------------------------------------------------------
(* JSON documents, as serde_json sees them *)

JNull == <<"null">>
JStr(s) == <<"str", s>>
JArr(a) == <<"arr", a>>
JObj(members) == <<"obj", members>>
\* a response body that is not JSON text at all
NotJson == <<"invalid">>

IsJStr(j) == j[1] = "str"
IsJArr(j) == j[1] = "arr"
IsJObj(j) == j[1] = "obj"
HasMember(j, k) == k \in DOMAIN j[2]
Member(j, k) == j[2][k]

\* #[derive(Serialize)] for Dependency: both fields, always
SerDependency(d) ==
    JObj([k \in {"name", "version"} |->
            IF k = "name" THEN JStr(d.name) ELSE JStr(d.version)])

\* Serialize for Option<Vec<Dependency>>: None is null, Some(v) an array in order
SerDependencies(o) ==
    IF IsSome(o)
    THEN JArr([i \in 1..Len(o[2]) |-> SerDependency(o[2][i])])
    ELSE JNull

\* the skip rule as it would be if it left out empty strings too
SkipSerializingEmpty(o) == ~IsSome(o) \/ o[2] = ""

\* #[serde(skip_serializing_if = "Option::is_none")]: whether the member is left out
SkipSerializing(o) == ~IsSome(o)

\* #[derive(Serialize)] for PackageBasicInfo
SerPackageBasicInfo(p) ==
    LET keys == {"url", "file_name", "version", "hash", "dependencies"}
                \cup (IF SkipSerializing(p.entry) THEN {} ELSE {"entry"})
                \cup (IF SkipSerializing(p.description) THEN {} ELSE {"description"})
    IN  JObj([k \in keys |->
            CASE k = "url" -> JStr(p.url)
              [] k = "file_name" -> JStr(p.file_name)
              [] k = "version" -> JStr(p.version)
              [] k = "hash" -> JStr(p.hash)
              [] k = "dependencies" -> SerDependencies(p.dependencies)
              [] k = "entry" -> JStr(p.entry[2])
              [] k = "description" -> JStr(p.description[2])])

\* #[derive(Serialize)] for RepoInfo: { "packages": { name: entry, ... } }
SerRepoInfo(pk) ==
    JObj([k \in {"packages"} |->
            JObj([n \in DOMAIN pk |-> SerPackageBasicInfo(pk[n])])])

\* Deserialize for String: a JSON string, nothing else
DeString(j) == IF IsJStr(j) THEN Ok(j[2]) ELSE Err(JsonError)

\* a required String member of a struct: missing or not a string is an error
DeStringMember(j, k) == IF HasMember(j, k) THEN DeString(Member(j, k)) ELSE Err(JsonError)

\* an Option<String> member: missing or null is None
DeOptStringMember(j, k) ==
    IF ~HasMember(j, k) \/ Member(j, k) = JNull THEN Ok(None)
    ELSE IF IsJStr(Member(j, k)) THEN Ok(Some(Member(j, k)[2]))
    ELSE Err(JsonError)

\* #[derive(Deserialize)] for Dependency
DeDependency(j) ==
    IF ~IsJObj(j) THEN Err(JsonError)
    ELSE LET name == DeStringMember(j, "name")
             version == DeStringMember(j, "version")
         IN  IF IsOk(name) /\ IsOk(version)
             THEN Ok(Dependency(name[2], version[2]))
             ELSE Err(JsonError)

\* the Option<Vec<Dependency>> member: missing or null is None, an array is read in order
DeDependenciesMember(j, k) ==
    IF ~HasMember(j, k) \/ Member(j, k) = JNull THEN Ok(None)
    ELSE IF ~IsJArr(Member(j, k)) THEN Err(JsonError)
    ELSE LET a == Member(j, k)[2]
             read == [i \in 1..Len(a) |-> DeDependency(a[i])]
         IN  IF \A i \in 1..Len(a) : IsOk(read[i])
             THEN Ok(Some([i \in 1..Len(a) |-> read[i][2]]))
             ELSE Err(JsonError)

\* #[derive(Deserialize)] for PackageBasicInfo; members it does not know are ignored
DePackageBasicInfo(j) ==
    IF ~IsJObj(j) THEN Err(JsonError)
    ELSE LET url == DeStringMember(j, "url")
             file_name == DeStringMember(j, "file_name")
             version == DeStringMember(j, "version")
             hash == DeStringMember(j, "hash")
             dependencies == DeDependenciesMember(j, "dependencies")
             entry == DeOptStringMember(j, "entry")
             description == DeOptStringMember(j, "description")
         IN  IF /\ IsOk(url) /\ IsOk(file_name) /\ IsOk(version) /\ IsOk(hash)
                /\ IsOk(dependencies) /\ IsOk(entry) /\ IsOk(description)
             THEN Ok(PackageBasicInfo(url[2], file_name[2], version[2], hash[2],
                                      dependencies[2], entry[2], description[2]))
             ELSE Err(JsonError)

\* #[derive(Deserialize)] for RepoInfo
DeRepoInfo(j) ==
    IF ~IsJObj(j) THEN Err(JsonError)
    ELSE IF ~HasMember(j, "packages") THEN Err(JsonError)
    ELSE LET m == Member(j, "packages")
         IN  IF ~IsJObj(m) THEN Err(JsonError)
             ELSE LET read == [n \in DOMAIN m[2] |-> DePackageBasicInfo(m[2][n])]
                  IN  IF \A n \in DOMAIN m[2] : IsOk(read[n])
                      THEN Ok([n \in DOMAIN m[2] |-> read[n][2]])
                      ELSE Err(JsonError)

\* JsonStorage::<RepoInfo>::from_str_to: serde_json::from_str on the text
from_str_to(text) == IF text = NotJson THEN Err(JsonError) ELSE DeRepoInfo(text)

-----------------------------------------------------------------------------
(* The registry operations: each returns the package map it leaves and the  *)
(* value it returns to the caller.                                          *)

Outcome(pk, res) == [packages |-> pk, result |-> res]

\* RepoInfo::new
new == Outcome(EmptyMap, Ok(Unit))

\* has_package as it would be if it tested !is_empty() instead of contains_key
has_package_any(pk, package_name) == Outcome(pk, DOMAIN pk # {})

\* RepoInfo::has_package
has_package(pk, package_name) == Outcome(pk, package_name \in DOMAIN pk)

\* RepoInfo::get_package
get_package(pk, package_name) ==
    Outcome(pk, IF package_name \in DOMAIN pk
                THEN Ok(pk[package_name])
                ELSE Err(PackageNotFound(package_name)))

\* add_package as it would be with entry().or_insert(..): an entry already held stays
add_package_keeps_first(pk, name, url, file_name, version, hash, dependencies, entry, description) ==
    IF name \in DOMAIN pk
    THEN Outcome(pk, Unit)
    ELSE Outcome(Insert(pk, name, PackageBasicInfo(url, file_name, version, hash,
                                                   dependencies, entry, description)),
                 Unit)

\* RepoInfo::add_package
add_package(pk, name, url, file_name, version, hash, dependencies, entry, description) ==
    Outcome(Insert(pk, name, PackageBasicInfo(url, file_name, version, hash,
                                              dependencies, entry, description)),
            Unit)

\* RepoInfo::add_package_with_info
add_package_with_info(pk, name, info) == Outcome(Insert(pk, name, info), Unit)

\* remove_package as it would be with HashMap::get and a clone: the entry stays
remove_package_keeps(pk, package_name) ==
    IF package_name \in DOMAIN pk
    THEN Outcome(pk, Ok(pk[package_name]))
    ELSE Outcome(pk, Err(PackageNotFound(package_name)))

\* remove_package as it would be if a miss were reported without the name asked for
remove_package_unnamed_miss(pk, package_name) ==
    IF package_name \in DOMAIN pk
    THEN Outcome(Without(pk, package_name), Ok(pk[package_name]))
    ELSE Outcome(pk, Err(PackageNotFound("")))

\* remove_package as it would be with HashMap::drain: a hit empties the whole map
remove_package_clears(pk, package_name) ==
    IF package_name \in DOMAIN pk
    THEN Outcome(EmptyMap, Ok(pk[package_name]))
    ELSE Outcome(pk, Err(PackageNotFound(package_name)))

\* RepoInfo::remove_package
remove_package(pk, package_name) ==
    IF package_name \in DOMAIN pk
    THEN Outcome(Without(pk, package_name), Ok(pk[package_name]))
    ELSE Outcome(pk, Err(PackageNotFound(package_name)))

\* update_package as it would be if an absent argument reset the field to its default
update_package_resets_absent(pk, package_name, url, file_name, version, hash, dependencies, entry, description) ==
    Outcome(Insert(pk, package_name,
                   PackageBasicInfo(unwrap_or_default(url), unwrap_or_default(file_name),
                                    unwrap_or_default(version), unwrap_or_default(hash),
                                    IF package_name \in DOMAIN pk /\ IsSome(dependencies)
                                    THEN dependencies ELSE None,
                                    entry, description)),
            Unit)

\* update_package as it would be if a present dependency list were appended to the
\* stored one (Vec::extend) instead of replacing it
update_package_extends_deps(pk, package_name, url, file_name, version, hash, dependencies, entry, description) ==
    IF package_name \in DOMAIN pk
    THEN LET existing_package == pk[package_name]
             updated ==
                 [existing_package EXCEPT
                    !.url = IF IsSome(url) THEN url[2] ELSE @,
                    !.file_name = IF IsSome(file_name) THEN file_name[2] ELSE @,
                    !.version = IF IsSome(version) THEN version[2] ELSE @,
                    !.hash = IF IsSome(hash) THEN hash[2] ELSE @,
                    !.dependencies =
                        IF IsSome(dependencies)
                        THEN (IF IsSome(@) THEN Some(@[2] \o dependencies[2])
                              ELSE Some(dependencies[2]))
                        ELSE @]
         IN  Outcome([pk EXCEPT ![package_name] = updated], Unit)
    ELSE Outcome(Insert(pk, package_name,
                        PackageBasicInfo(unwrap_or_default(url),
                                         unwrap_or_default(file_name),
                                         unwrap_or_default(version),
                                         unwrap_or_default(hash),
                                         None, entry, description)),
                 Unit)

\* update_package as it would be if the entry it creates kept the list passed
update_package_upsert_keeps_deps(pk, package_name, url, file_name, version, hash, dependencies, entry, description) ==
    IF package_name \in DOMAIN pk
    THEN LET existing_package == pk[package_name]
             updated ==
                 [existing_package EXCEPT
                    !.url = IF IsSome(url) THEN url[2] ELSE @,
                    !.file_name = IF IsSome(file_name) THEN file_name[2] ELSE @,
                    !.version = IF IsSome(version) THEN version[2] ELSE @,
                    !.hash = IF IsSome(hash) THEN hash[2] ELSE @,
                    !.dependencies = IF IsSome(dependencies)
                                     THEN Some(dependencies[2]) ELSE @]
         IN  Outcome([pk EXCEPT ![package_name] = updated], Unit)
    ELSE Outcome(Insert(pk, package_name,
                        PackageBasicInfo(unwrap_or_default(url),
                                         unwrap_or_default(file_name),
                                         unwrap_or_default(version),
                                         unwrap_or_default(hash),
                                         dependencies, entry, description)),
                 Unit)

\* RepoInfo::update_package
update_package(pk, package_name, url, file_name, version, hash, dependencies, entry, description) ==
    IF package_name \in DOMAIN pk
    THEN LET existing_package == pk[package_name]
             updated ==
                 [existing_package EXCEPT
                    !.url = IF IsSome(url) THEN url[2] ELSE @,
                    !.file_name = IF IsSome(file_name) THEN file_name[2] ELSE @,
                    !.version = IF IsSome(version) THEN version[2] ELSE @,
                    !.hash = IF IsSome(hash) THEN hash[2] ELSE @,
                    !.dependencies = IF IsSome(dependencies)
                                     THEN Some(dependencies[2]) ELSE @]
         IN  Outcome([pk EXCEPT ![package_name] = updated], Unit)
    ELSE Outcome(Insert(pk, package_name,
                        PackageBasicInfo(unwrap_or_default(url),
                                         unwrap_or_default(file_name),
                                         unwrap_or_default(version),
                                         unwrap_or_default(hash),
                                         None, entry, description)),
                 Unit)

\* an HTTP exchange as reqwest reports it: the transport fails, or a response
\* arrives with a status and a body that does or does not decode as text
Response(transport, status, body) ==
    [transport |-> transport, status |-> status, body |-> body]

\* from_url as it would be with error_for_status: a non-success status is an error
from_url_checks_status(response) ==
    IF response.transport = "connect_error" THEN Err(NetworkError("connect"))
    ELSE IF response.status < 200 \/ response.status >= 300 THEN Err(NetworkError("status"))
    ELSE IF response.transport = "decode_error" THEN Err(NetworkError("decode"))
    ELSE from_str_to(response.body)

\* JsonStorage::<RepoInfo>::from_url: GET, body as text, parse; the status is not read
from_url(response) ==
    IF response.transport = "connect_error" THEN Err(NetworkError("connect"))
    ELSE IF response.transport = "decode_error" THEN Err(NetworkError("decode"))
    ELSE from_str_to(response.body)

\* fetch_update_repo_info as it would be with HashMap::extend: the fetched entries
\* are merged into the local map
fetch_update_repo_info_merges(pk, response) ==
    LET repo_info == from_url(response)
    IN  IF IsOk(repo_info)
        THEN Outcome([n \in (DOMAIN pk) \cup (DOMAIN repo_info[2]) |->
                        IF n \in DOMAIN repo_info[2] THEN repo_info[2][n] ELSE pk[n]],
                     Ok(Unit))
        ELSE Outcome(pk, repo_info)

\* fetch_update_repo_info as it would be if the local map were cleared before the fetch
fetch_update_repo_info_clears_first(pk, response) ==
    LET repo_info == from_url(response)
    IN  IF IsOk(repo_info)
        THEN Outcome(repo_info[2], Ok(Unit))
        ELSE Outcome(EmptyMap, repo_info)

\* RepoInfo::fetch_update_repo_info
fetch_update_repo_info(pk, response) ==
    LET repo_info == from_url(response)
    IN  IF IsOk(repo_info)
        THEN Outcome(repo_info[2], Ok(Unit))
        ELSE Outcome(pk, repo_info)

-----------------------------------------------------------------------------
(* Text as characters. str::replace looks at the characters of a url, so    *)
(* the urls, file names and package names of the model are spelled out.     *)

Chars(s) ==
    CASE s = "" -> << >>
      [] s = "a" -> <<"a">>
      [] s = "b" -> <<"b">>
      [] s = "f" -> <<"f">>
      [] s = "x" -> <<"x">>
      [] s = "h/f" -> <<"h", "/", "f">>
      [] s = "f/f" -> <<"f", "/", "f">>
      [] s = "h/m" -> <<"h", "/", "m">>

starts_with(s, p) == Len(p) <= Len(s) /\ SubSeq(s, 1, Len(p)) = p
ends_with(s, p) == Len(p) <= Len(s) /\ SubSeq(s, Len(s) - Len(p) + 1, Len(s)) = p

\* str::replace: every non-overlapping match of `from`, left to right, becomes `to`;
\* the empty pattern matches before each character and at the end
RECURSIVE replace(_, _, _)
replace(s, from, to) ==
    IF from = << >>
    THEN IF s = << >> THEN to ELSE to \o <<Head(s)>> \o replace(Tail(s), from, to)
    ELSE IF s = << >> THEN << >>
    ELSE IF starts_with(s, from)
         THEN to \o replace(SubSeq(s, Len(from) + 1, Len(s)), from, to)
         ELSE <<Head(s)>> \o replace(Tail(s), from, to)

\* format!("src/{}/packageInfo.json", pkg_name)
descriptor_path(pkg_name) ==
    <<"s", "r", "c", "/">> \o Chars(pkg_name)
    \o <<"/", "p", "a", "c", "k", "a", "g", "e", "I", "n", "f", "o", ".", "j", "s", "o", "n">>

-----------------------------------------------------------------------------
(* The package descriptor and its JSON form *)

PackageInfo(package_name, file_name, version, description, hash, dependencies) ==
    [package_name |-> package_name, file_name |-> file_name, version |-> version,
     description |-> description, hash |-> hash, dependencies |-> dependencies]

\* #[derive(Serialize)] for PackageInfo
SerPackageInfo(p) ==
    JObj([k \in {"package_name", "file_name", "version", "description", "hash", "dependencies"} |->
            CASE k = "package_name" -> JStr(p.package_name)
              [] k = "file_name" -> JStr(p.file_name)
              [] k = "version" -> JStr(p.version)
              [] k = "description" -> JStr(p.description)
              [] k = "hash" -> JStr(p.hash)
              [] k = "dependencies" -> SerDependencies(p.dependencies)])

\* #[derive(Deserialize)] for PackageInfo
DePackageInfo(j) ==
    IF ~IsJObj(j) THEN Err(JsonError)
    ELSE LET package_name == DeStringMember(j, "package_name")
             file_name == DeStringMember(j, "file_name")
             version == DeStringMember(j, "version")
             description == DeStringMember(j, "description")
             hash == DeStringMember(j, "hash")
             dependencies == DeDependenciesMember(j, "dependencies")
         IN  IF /\ IsOk(package_name) /\ IsOk(file_name) /\ IsOk(version)
                /\ IsOk(description) /\ IsOk(hash) /\ IsOk(dependencies)
             THEN Ok(PackageInfo(package_name[2], file_name[2], version[2],
                                 description[2], hash[2], dependencies[2]))
             ELSE Err(JsonError)

\* JsonStorage::<PackageInfo>::from_url: GET, body as text, parse; the status is not read
from_url_PackageInfo(response) ==
    IF response.transport = "connect_error" THEN Err(NetworkError("connect"))
    ELSE IF response.transport = "decode_error" THEN Err(NetworkError("decode"))
    ELSE IF response.body = NotJson THEN Err(JsonError)
    ELSE DePackageInfo(response.body)

-----------------------------------------------------------------------------
(* The client's network operations. fetch_package runs in steps, one per    *)
(* await; each step returns what it leaves behind: the package map, the     *)
(* value returned (Pending while the call is still running), where the call *)
(* stands, the HTTP exchanges made so far, the files of the temporary       *)
(* directory and the call's local values.                                   *)

Pending == <<"Pending">>

Step(pk, res, at, reqs, fs, loc) ==
    [packages |-> pk, result |-> res, pc |-> at, requests |-> reqs, files |-> fs, local |-> loc]

\* one GET: the url asked for, as characters, and what came back
Exchange(url, response) == [url |-> url, response |-> response]

\* the body of a response read with bytes_stream rather than as text
Streamed == <<"Streamed">>

\* StatusCode::is_success
is_success(status) == status >= 200 /\ status < 300

\* a piece of a file: the whole of chunk k, or only a leading part of it
Whole(k) == [chunk |-> k, whole |-> TRUE]
Part(k) == [chunk |-> k, whole |-> FALSE]

\* the local values of fetch_package: the parsed descriptor, the chunks the stream
\* has delivered, the chunk handed to the file whose write has not finished, and
\* the chunks whose write failed
NoLocal == [package_info |-> None, received |-> << >>, pending |-> None, failed |-> {}]

\* tokio::fs::File: a write handed to the file runs in the background. It ends
\* with the chunk in the file ("done"), with nothing written ("failed") or with
\* part of the chunk written ("torn")
Settle(content, pending, wrote) ==
    IF ~IsSome(pending) THEN content
    ELSE CASE wrote = "done" -> Append(content, Whole(pending[2]))
           [] wrote = "failed" -> content
           [] wrote = "torn" -> Append(content, Part(pending[2]))

\* the chunks whose write has failed, once the pending one has ended
Failed(loc, wrote) ==
    IF IsSome(loc.pending) /\ wrote # "done" THEN loc.failed \cup {loc.pending[2]} ELSE loc.failed

\* RepoInfo::get_single_package_info
get_single_package_info(pk, fs, pkg_name, response) ==
    IF pkg_name \in DOMAIN pk
    THEN LET package == pk[pkg_name]
             new_url == replace(Chars(package.url), Chars(package.file_name),
                                descriptor_path(pkg_name))
         IN  Step(pk, from_url_PackageInfo(response), "idle",
                  <<Exchange(new_url, response)>>, fs, NoLocal)
    ELSE Step(pk, Err(PackageNotFound(pkg_name)), "idle", << >>, fs, NoLocal)

\* fetch_package as it would be if it asked the host before looking the name up
fetch_package_asks_first(pk, fs, pkg_name, response) ==
    IF pkg_name \in DOMAIN pk
    THEN LET url == pk[pkg_name].url
             package_info == from_url_PackageInfo(response)
             reqs == <<Exchange(Chars(url), response)>>
         IN  IF IsOk(package_info)
             THEN Step(pk, Pending, "get", reqs, fs,
                       [NoLocal EXCEPT !.package_info = Some(package_info[2])])
             ELSE Step(pk, package_info, "idle", reqs, fs, NoLocal)
    ELSE Step(pk, Err(PackageNotFound(pkg_name)), "idle",
              <<Exchange(<< >>, response)>>, fs, NoLocal)

\* RepoInfo::fetch_package up to the end of its first await: the lookup and the
\* descriptor fetch
fetch_package(pk, fs, pkg_name, response) ==
    IF pkg_name \in DOMAIN pk
    THEN LET url == pk[pkg_name].url
             package_info == from_url_PackageInfo(response)
             reqs == <<Exchange(Chars(url), response)>>
         IN  IF IsOk(package_info)
             THEN Step(pk, Pending, "get", reqs, fs,
                       [NoLocal EXCEPT !.package_info = Some(package_info[2])])
             ELSE Step(pk, package_info, "idle", reqs, fs, NoLocal)
    ELSE Step(pk, Err(PackageNotFound(pkg_name)), "idle", << >>, fs, NoLocal)

\* fetch_package_get as it would be if the file were created before the status is read
fetch_package_get_creates_first(pk, fs, pkg_name, reqs, loc, response) ==
    LET url == pk[pkg_name].url
        sent == Append(reqs, Exchange(Chars(url), response))
        made == Insert(fs, pk[pkg_name].file_name, << >>)
    IN  IF response.transport # "ok"
        THEN Step(pk, Err(NetworkError("connect")), "idle", sent, fs, loc)
        ELSE IF ~is_success(response.status)
        THEN Step(pk, Err(NetworkError(<<"Failed to fetch package", pkg_name, response.status>>)),
                  "idle", sent, made, loc)
        ELSE Step(pk, Pending, "create", sent, made, loc)

\* fetch_package, second await: the GET of the artifact and the test of its status
fetch_package_get(pk, fs, pkg_name, reqs, loc, response) ==
    LET url == pk[pkg_name].url
        sent == Append(reqs, Exchange(Chars(url), response))
    IN  IF response.transport # "ok"
        THEN Step(pk, Err(NetworkError("connect")), "idle", sent, fs, loc)
        ELSE IF ~is_success(response.status)
        THEN Step(pk, Err(NetworkError(<<"Failed to fetch package", pkg_name, response.status>>)),
                  "idle", sent, fs, loc)
        ELSE Step(pk, Pending, "create", sent, fs, loc)

\* fetch_package, third await: File::create of temp_dir().join(file_name), which
\* makes the file or empties it. Joining "" names the directory itself, which
\* cannot be created as a file
fetch_package_create(pk, fs, pkg_name, reqs, loc, io) ==
    LET filename == pk[pkg_name].file_name
    IN  IF io = "ok" /\ filename # ""
        THEN Step(pk, Pending, "stream", reqs, Insert(fs, filename, << >>), loc)
        ELSE Step(pk, Err(IoError("create")), "idle", reqs, fs, loc)

\* fetch_package_stream as it would be if the descriptor's hash were compared with
\* the entry's hash once the body has ended
fetch_package_stream_verifies(pk, fs, pkg_name, reqs, loc, item, wrote) ==
    LET filename == pk[pkg_name].file_name
        settled == Insert(fs, filename, Settle(fs[filename], loc.pending, wrote))
        ended == [loc EXCEPT !.pending = None, !.failed = Failed(loc, wrote)]
    IN  CASE item = "end" ->
               IF loc.package_info[2].hash = pk[pkg_name].hash
               THEN Step(pk, Ok(loc.package_info[2]), "idle", reqs, settled, ended)
               ELSE Step(pk, Err(HashMismatch(pk[pkg_name].hash, loc.package_info[2].hash)),
                         "idle", reqs, settled, ended)
          [] item = "error" ->
               Step(pk, Err(NetworkError("body")), "idle", reqs, settled, ended)
          [] item = "chunk" ->
               LET k == Len(loc.received) + 1
                   got == [ended EXCEPT !.received = Append(loc.received, k)]
               IN  IF IsSome(loc.pending) /\ wrote # "done"
                   THEN Step(pk, Err(IoError("write")), "idle", reqs, settled, got)
                   ELSE Step(pk, Pending, "stream", reqs, settled,
                             [got EXCEPT !.pending = Some(k)])

\* fetch_package, one turn of the loop: stream.next() gives the next chunk, a
\* transport error or the end of the body. write_all first waits for the write
\* before it and returns that write's error; otherwise it hands the chunk to the
\* file and returns. The file is never flushed: when the function returns, the
\* write still pending ends on its own and its error reaches nobody.
fetch_package_stream(pk, fs, pkg_name, reqs, loc, item, wrote) ==
    LET filename == pk[pkg_name].file_name
        settled == Insert(fs, filename, Settle(fs[filename], loc.pending, wrote))
        ended == [loc EXCEPT !.pending = None, !.failed = Failed(loc, wrote)]
    IN  CASE item = "end" ->
               Step(pk, Ok(loc.package_info[2]), "idle", reqs, settled, ended)
          [] item = "error" ->
               Step(pk, Err(NetworkError("body")), "idle", reqs, settled, ended)
          [] item = "chunk" ->
               LET k == Len(loc.received) + 1
                   got == [ended EXCEPT !.received = Append(loc.received, k)]
               IN  IF IsSome(loc.pending) /\ wrote # "done"
                   THEN Step(pk, Err(IoError("write")), "idle", reqs, settled, got)
                   ELSE Step(pk, Pending, "stream", reqs, settled,
                             [got EXCEPT !.pending = Some(k)])

-----------------------------------------------------------------------------
(* The values callers and the remote host supply *)

Names == {"a", "b"}

\* each run draws its arguments from one profile, which says which fields vary:
\* url and file_name in "locator", version and hash in "release", the dependency
\* lists in "deps", the client-build fields entry and description in "client"
Profiles == {"locator", "release", "deps", "client"}

Varying(p) ==
    CASE p = "locator" -> {"url", "file_name"}
      [] p = "release" -> {"version", "hash"}
      [] p = "deps" -> {"dependencies"}
      [] p = "client" -> {"entry", "description"}
      [] p = "fetch" -> {"url", "file_name"}

\* String arguments for a text field
StrPool(p, field) ==
    IF p = "fetch" /\ field = "url" THEN {"h/f", "f/f"}
    ELSE IF p = "fetch" /\ field = "file_name" THEN {"f"}
    ELSE IF field \in Varying(p) THEN {"", "x"} ELSE {""}

\* Option<String> arguments of update_package for a text field
OptStrArgs(p, field) ==
    IF field \in Varying(p) THEN {None} \cup {Some(v) : v \in StrPool(p, field)}
    ELSE {None}

DepPool == {Dependency("s", "1"), Dependency("t", "2")}

RECURSIVE SeqsUpTo(_, _)
SeqsUpTo(S, n) ==
    IF n = 0 THEN {<< >>}
    ELSE LET shorter == SeqsUpTo(S, n - 1)
         IN  shorter \cup {Append(q, x) : q \in {r \in shorter : Len(r) = n - 1}, x \in S}

DepLists == SeqsUpTo(DepPool, MaxDeps)

\* Option<Vec<Dependency>> arguments
DepsPool(p) ==
    IF "dependencies" \in Varying(p) THEN {None} \cup {Some(l) : l \in DepLists}
    ELSE {None}

\* Option<String> arguments for entry and description
OptStrPool(p, field) ==
    IF field \in Varying(p) THEN {None, Some(""), Some("e")} ELSE {None}

Entries(p) ==
    [url : StrPool(p, "url"), file_name : StrPool(p, "file_name"),
     version : StrPool(p, "version"), hash : StrPool(p, "hash"),
     dependencies : DepsPool(p),
     entry : OptStrPool(p, "entry"), description : OptStrPool(p, "description")]

\* documents that differ from what the serializer writes
DropMember(j, k) == JObj([x \in (DOMAIN j[2]) \ {k} |-> j[2][x]])
WithMember(j, k, v) == JObj([x \in (DOMAIN j[2]) \cup {k} |-> IF x = k THEN v ELSE j[2][x]])
PlainEntryJson == SerPackageBasicInfo(PackageBasicInfo("", "", "", "", None, None, None))
DocOf(entryJson) == JObj([k \in {"packages"} |-> JObj([n \in {"a"} |-> entryJson])])

OddDocs ==
    { NotJson, JNull, JObj(EmptyMap),
      DocOf(DropMember(PlainEntryJson, "hash")),
      DocOf(WithMember(PlainEntryJson, "url", JNull)),
      DocOf(DropMember(PlainEntryJson, "dependencies")),
      DocOf(WithMember(PlainEntryJson, "size", JStr("1"))),
      DocOf(WithMember(PlainEntryJson, "entry", JNull)) }

\* the registries a remote host publishes: no package, one package, or several that
\* share one entry value
RemoteRegistries(p) ==
    {[n \in S |-> e] : S \in SUBSET Names, e \in Entries(p)}

RemoteDocs(p) == {SerRepoInfo(r) : r \in RemoteRegistries(p)} \cup OddDocs

ResponsesOf(p) ==
    {Response("ok", st, b) : st \in {200, 404}, b \in RemoteDocs(p)}
    \cup {Response("connect_error", 0, NotJson), Response("decode_error", 200, NotJson)}

\* the exchanges a refresh may meet, by profile
Responses == [p \in Profiles \cup {"fetch"} |-> ResponsesOf(p)]

\* the url a refresh is pointed at
ManifestUrls == {"h/m"}

\* what the host answers when asked for a descriptor: well-formed descriptors
\* with one hash or another, text that is not JSON, a descriptor without its hash
DescriptorDocs ==
    {SerPackageInfo(PackageInfo("a", "f", "1", "d", h, None)) : h \in {"", "x"}}
    \cup {NotJson, DropMember(SerPackageInfo(PackageInfo("a", "f", "1", "d", "", None)), "hash")}

DescriptorResponses ==
    {Response("ok", st, b) : st \in {200, 404}, b \in DescriptorDocs}
    \cup {Response("connect_error", 0, NotJson), Response("decode_error", 200, NotJson)}

\* what the host answers to the GET of the artifact, before the body is read
ArtifactResponses ==
    {Response("ok", st, Streamed) : st \in {200, 404}}
    \cup {Response("connect_error", 0, Streamed)}

\* how File::create and a background write can end, and what stream.next() can give
CreateOutcomes == {"ok", "denied"}
WriteOutcomes == {"done", "failed", "torn"}
StreamItems == {"chunk", "error", "end"}

\* the temporary directory before the first call: empty, or holding an earlier
\* download under the name "f"
InitialFiles == {EmptyMap, [f \in {"f"} |-> <<Whole(0)>>]}

-----------------------------------------------------------------------------
(* The state machine *)

\* a call as the caller made it: the operation, the package name and the other
\* arguments passed, and the names the registry held when it was made
Call(op, name, args, pk) ==
    [op |-> op, name |-> name, args |-> args, before |-> DOMAIN pk]

UpdateArgs(url, file_name, version, hash, dependencies, entry, description) ==
    [url |-> url, file_name |-> file_name, version |-> version, hash |-> hash,
     dependencies |-> dependencies, entry |-> entry, description |-> description]

Init ==
    /\ profile \in Profiles
    /\ packages = new.packages
    /\ result = new.result
    /\ call = Call("new", "", << >>, EmptyMap)
    /\ requests = << >>
    /\ files = EmptyMap
    /\ pc = "idle"
    /\ local = NoLocal

\* an operation that runs in one piece: it returns, having made the exchanges
\* reqs. The caller awaits each call before making the next.
Return(outcome, c, reqs) ==
    /\ pc = "idle"
    /\ packages' = outcome.packages
    /\ result' = outcome.result
    /\ call' = c
    /\ requests' = reqs
    /\ local' = NoLocal
    /\ UNCHANGED <<profile, files, pc>>

Apply(outcome, c) == Return(outcome, c, << >>)

HasPackage ==
    \E n \in Names : Apply(has_package(packages, n), Call("has_package", n, << >>, packages))

GetPackage ==
    \E n \in Names : Apply(get_package(packages, n), Call("get_package", n, << >>, packages))

AddPackage ==
    \E n \in Names, url \in StrPool(profile, "url"),
       file_name \in StrPool(profile, "file_name"),
       version \in StrPool(profile, "version"), hash \in StrPool(profile, "hash"),
       dependencies \in DepsPool(profile),
       entry \in OptStrPool(profile, "entry"),
       description \in OptStrPool(profile, "description") :
        Apply(add_package(packages, n, url, file_name, version, hash, dependencies,
                          entry, description),
              Call("add_package", n,
                   PackageBasicInfo(url, file_name, version, hash, dependencies,
                                    entry, description),
                   packages))

AddPackageWithInfo ==
    \E n \in Names, info \in Entries(profile) :
        Apply(add_package_with_info(packages, n, info),
              Call("add_package_with_info", n, info, packages))

RemovePackage ==
    \E n \in Names : Apply(remove_package(packages, n), Call("remove_package", n, << >>, packages))

UpdatePackage ==
    \E n \in Names, url \in OptStrArgs(profile, "url"),
       file_name \in OptStrArgs(profile, "file_name"),
       version \in OptStrArgs(profile, "version"), hash \in OptStrArgs(profile, "hash"),
       dependencies \in DepsPool(profile),
       entry \in OptStrPool(profile, "entry"),
       description \in OptStrPool(profile, "description") :
        Apply(update_package(packages, n, url, file_name, version, hash, dependencies,
                             entry, description),
              Call("update_package", n,
                   UpdateArgs(url, file_name, version, hash, dependencies,
                              entry, description),
                   packages))

FetchUpdateRepoInfo ==
    \E url \in ManifestUrls, response \in Responses[profile] :
        Return(fetch_update_repo_info(packages, response),
               Call("fetch_update_repo_info", "", response, packages),
               <<Exchange(Chars(url), response)>>)

Next ==
    \/ HasPackage
    \/ GetPackage
    \/ AddPackage
    \/ AddPackageWithInfo
    \/ RemovePackage
    \/ UpdatePackage
    \/ FetchUpdateRepoInfo

Spec == Init /\ [][Next]_vars

\* a step of a network operation of the client
Take(step, c) ==
    /\ packages' = step.packages
    /\ result' = step.result
    /\ call' = c
    /\ requests' = step.requests
    /\ files' = step.files
    /\ pc' = step.pc
    /\ local' = step.local
    /\ UNCHANGED profile

GetSinglePackageInfo ==
    /\ pc = "idle"
    /\ \E n \in Names, response \in DescriptorResponses :
        Take(get_single_package_info(packages, files, n, response),
             Call("get_single_package_info", n, << >>, packages))

FetchPackage ==
    /\ pc = "idle"
    /\ \E n \in Names, response \in DescriptorResponses :
        Take(fetch_package(packages, files, n, response),
             Call("fetch_package", n, << >>, packages))

FetchPackageGet ==
    /\ pc = "get"
    /\ \E response \in ArtifactResponses :
        Take(fetch_package_get(packages, files, call.name, requests, local, response), call)

FetchPackageCreate ==
    /\ pc = "create"
    /\ \E io \in CreateOutcomes :
        Take(fetch_package_create(packages, files, call.name, requests, local, io), call)

FetchPackageStream ==
    /\ pc = "stream"
    /\ \E item \in StreamItems, wrote \in WriteOutcomes :
        /\ item = "chunk" => Len(local.received) < MaxChunks
        /\ Take(fetch_package_stream(packages, files, call.name, requests, local, item, wrote),
                call)

FetchNext ==
    \/ Next
    \/ GetSinglePackageInfo
    \/ FetchPackage
    \/ FetchPackageGet
    \/ FetchPackageCreate
    \/ FetchPackageStream

FetchInit ==
    /\ profile = "fetch"
    /\ packages = new.packages
    /\ result = new.result
    /\ call = Call("new", "", << >>, EmptyMap)
    /\ requests = << >>
    /\ files \in InitialFiles
    /\ pc = "idle"
    /\ local = NoLocal

FetchSpec == FetchInit /\ [][FetchNext]_vars

-----------------------------------------------------------------------------
(* Properties *)

\* what has(n) and get(n) answer on a package map, and in the current state
HasIn(pk, n) == has_package(pk, n).result
GetIn(pk, n) == get_package(pk, n).result
Has(n) == HasIn(packages, n)
Get(n) == GetIn(packages, n)

\* the name was in the registry when the last call was made
Had == call.name \in call.before

Fields == {"url", "file_name", "version", "hash", "dependencies", "entry", "description"}
TextFields == {"url", "file_name", "version", "hash"}

\* C1: after add(n, ...), however many adds of n came before, has(n) is true and
\* get(n) returns exactly the fields of this add; the map holds n once.
C1_AddLastWins ==
    call.op \in {"add_package", "add_package_with_info"} =>
        /\ Has(call.name) = TRUE
        /\ Get(call.name) = Ok(call.args)
        /\ Cardinality({n \in DOMAIN packages : n = call.name}) = 1

\* an add of a name the registry already held, after which get returns what it passed
C1_Witness ==
    /\ call.op = "add_package"
    /\ Had
    /\ call.args.url = "x"
    /\ call.args.file_name = ""
    /\ Get(call.name) = Ok(call.args)

\* C2: update(n, ...) of an existing entry leaves every field whose argument is
\* absent exactly as it was.
C2_UpdateKeepsAbsent ==
    [][(call'.op = "update_package" /\ call'.name \in DOMAIN packages) =>
        /\ call'.name \in DOMAIN packages'
        /\ \A f \in Fields :
              call'.args[f] = None =>
                  packages'[call'.name][f] = packages[call'.name][f]]_vars

\* an update of an existing entry with only version set, the entry's hash being set
C2_Witness ==
    /\ call.op = "update_package"
    /\ Had
    /\ call.args.version = Some("x")
    /\ \A f \in Fields \ {"version"} : call.args[f] = None
    /\ packages[call.name].version = "x"
    /\ packages[call.name].hash = "x"

\* C3: update(n, ...) of an existing entry sets each of url, file_name, version and
\* hash whose argument is present to the value passed, and a present dependencies
\* argument replaces the stored list by exactly the list passed.
C3_UpdateOverwritesPresent ==
    (call.op = "update_package" /\ Had) =>
        /\ call.name \in DOMAIN packages
        /\ \A f \in TextFields :
              IsSome(call.args[f]) => packages[call.name][f] = call.args[f][2]
        /\ IsSome(call.args.dependencies) =>
              packages[call.name].dependencies = Some(call.args.dependencies[2])

\* an update of an existing entry that passes a two-element dependency list
C3_Witness ==
    /\ call.op = "update_package"
    /\ Had
    /\ IsSome(call.args.dependencies)
    /\ Len(call.args.dependencies[2]) = 2
    /\ call.args.dependencies[2][1] # call.args.dependencies[2][2]
    /\ packages[call.name].dependencies = call.args.dependencies

\* C4: update(n, ...) of an absent name creates the entry: each text field is the
\* value passed, or "" when none was passed, and dependencies is None whether or
\* not a list was passed; the call does not fail.
C4_UpsertOnUpdate ==
    (call.op = "update_package" /\ ~Had) =>
        /\ result = Unit
        /\ Has(call.name) = TRUE
        /\ \A f \in TextFields :
              packages[call.name][f] =
                  (IF IsSome(call.args[f]) THEN call.args[f][2] ELSE "")
        /\ packages[call.name].dependencies = None

\* an update of an absent name that passes a non-empty dependency list
C4_Witness ==
    /\ call.op = "update_package"
    /\ ~Had
    /\ IsSome(call.args.dependencies)
    /\ call.args.dependencies[2] # << >>
    /\ call.name \in DOMAIN packages
    /\ packages[call.name].dependencies = None

\* C5: remove(n) of an existing name returns the entry get(n) returned just before,
\* and afterwards has(n) is false and get(n) fails with package-not-found; n comes
\* back only by an add or update of n or by a refresh.
C5_RemoveThenLookup ==
    /\ [][(call'.op = "remove_package" /\ Has(call'.name)) =>
            /\ result' = Get(call'.name)
            /\ HasIn(packages', call'.name) = FALSE
            /\ GetIn(packages', call'.name) = Err(PackageNotFound(call'.name))]_vars
    /\ [][\A n \in Names :
            (~Has(n) /\ Has(n)') =>
                \/ call'.op \in {"add_package", "add_package_with_info", "update_package"}
                   /\ call'.name = n
                \/ call'.op = "fetch_update_repo_info"]_vars

\* a remove of a name the registry held, which returned its entry
C5_Witness ==
    /\ call.op = "remove_package"
    /\ Had
    /\ IsOk(result)
    /\ result[2].url = "x"
    /\ ~Has(call.name)

\* C6: remove(n) of an absent name fails with package-not-found carrying n and leaves
\* the package map as it was; so does a second remove(n) right after a successful one.
C6_RemoveAbsentFails ==
    /\ [][(call'.op = "remove_package" /\ ~Has(call'.name)) =>
            /\ result' = Err(PackageNotFound(call'.name))
            /\ packages' = packages]_vars
    /\ [][(/\ call.op = "remove_package" /\ IsOk(result)
           /\ call'.op = "remove_package" /\ call'.name = call.name) =>
            /\ result' = Err(PackageNotFound(call'.name))
            /\ packages' = packages]_vars

\* a failed remove of a name the registry did not hold, while it held another
C6_Witness ==
    /\ call.op = "remove_package"
    /\ ~Had
    /\ result = Err(PackageNotFound(call.name))
    /\ DOMAIN packages = Names \ {call.name}

\* get(n) and has(n) agree
LookupAgrees ==
    \A n \in Names :
        /\ IsOk(Get(n)) <=> (Has(n) = TRUE)
        /\ (Get(n) = Err(PackageNotFound(n))) <=> (Has(n) = FALSE)

\* C7: in every state get(n) succeeds exactly when has(n) is true and fails with
\* package-not-found exactly when has(n) is false; a new registry has no name; has
\* and get leave the registry as it was.
C7_LookupConsistency ==
    /\ LookupAgrees
    /\ \A n \in Names : Has(n) = FALSE
    /\ [][/\ LookupAgrees'
          /\ call'.op \in {"has_package", "get_package"} => packages' = packages
          /\ call'.op = "has_package" => result' = HasIn(packages', call'.name)
          /\ call'.op = "get_package" => result' = GetIn(packages', call'.name)]_vars

\* a get of an absent name in a registry that holds another name
C7_Witness ==
    /\ call.op = "get_package"
    /\ result = Err(PackageNotFound(call.name))
    /\ ~Has(call.name)
    /\ \E n \in Names : Has(n) /\ IsOk(Get(n))

\* what a document says about one entry, read off the JSON tree member by member
EntrySaysText(j, e, f) == HasMember(j, f) /\ Member(j, f) = JStr(e[f])
EntrySaysOpt(j, e, f) ==
    IF HasMember(j, f) /\ Member(j, f) # JNull
    THEN e[f] = Some(Member(j, f)[2])
    ELSE e[f] = None
EntrySaysDeps(j, e) ==
    IF HasMember(j, "dependencies") /\ Member(j, "dependencies") # JNull
    THEN LET a == Member(j, "dependencies")[2]
         IN  /\ IsSome(e.dependencies)
             /\ Len(e.dependencies[2]) = Len(a)
             /\ \A i \in 1..Len(a) :
                   /\ Member(a[i], "name") = JStr(e.dependencies[2][i].name)
                   /\ Member(a[i], "version") = JStr(e.dependencies[2][i].version)
    ELSE e.dependencies = None
DocSays(doc, pk) ==
    /\ IsJObj(doc)
    /\ HasMember(doc, "packages")
    /\ DOMAIN Member(doc, "packages")[2] = DOMAIN pk
    /\ \A n \in DOMAIN pk :
          LET j == Member(doc, "packages")[2][n]
          IN  /\ \A f \in TextFields : EntrySaysText(j, pk[n], f)
              /\ EntrySaysDeps(j, pk[n])
              /\ EntrySaysOpt(j, pk[n], "entry")
              /\ EntrySaysOpt(j, pk[n], "description")

\* C8: after a successful refresh the local package map is exactly the package map
\* of the fetched document, whatever the local map held before.
C8_RefreshReplaces ==
    (call.op = "fetch_update_repo_info" /\ IsOk(result)) =>
        DocSays(call.args.body, packages)

\* a successful refresh of a registry that held both names, from a document with one
C8_Witness ==
    /\ call.op = "fetch_update_repo_info"
    /\ IsOk(result)
    /\ call.before = Names
    /\ DOMAIN packages = {"b"}
    /\ packages["b"].url = "x"

\* C9: a refresh that fails, with a network error (transport or body decode) or a
\* format error (the body is no registry document), leaves the package map as it was.
C9_RefreshAllOrNothing ==
    [][call'.op = "fetch_update_repo_info" =>
        /\ call'.args.transport # "ok" =>
              IsErr(result') /\ result'[2][1] = "NetworkError"
        /\ IsErr(result') =>
              /\ packages' = packages
              /\ result'[2][1] \in {"NetworkError", "JsonError"}
              /\ result'[2][1] = "JsonError" <=> call'.args.transport = "ok"]_vars

\* a refresh that failed on a body that does not parse, the registry holding entries
C9_Witness ==
    /\ call.op = "fetch_update_repo_info"
    /\ result = Err(JsonError)
    /\ call.before = Names
    /\ DOMAIN packages = Names

\* C10: writing the registry as a document and reading the document back gives the
\* same names and, for each, the same url, file_name, version, hash, dependencies,
\* entry and description; absent dependencies are written as null, absent entry
\* and description are left out.
C10_RoundTrip ==
    LET doc == SerRepoInfo(packages)
        back == from_str_to(doc)
    IN  /\ IsOk(back)
        /\ DOMAIN back[2] = DOMAIN packages
        /\ \A n \in DOMAIN packages : \A f \in Fields : back[2][n][f] = packages[n][f]
        /\ \A n \in DOMAIN packages :
              LET j == Member(doc, "packages")[2][n]
              IN  /\ packages[n].dependencies = None => Member(j, "dependencies") = JNull
                  /\ packages[n].entry = None <=> ~HasMember(j, "entry")
                  /\ packages[n].description = None <=> ~HasMember(j, "description")

\* a registry holding one entry without dependencies and one with two, in an order
C10_Witness ==
    /\ DOMAIN packages = Names
    /\ packages["a"].dependencies = None
    /\ packages["b"].dependencies = Some(<<Dependency("t", "2"), Dependency("s", "1")>>)
    /\ packages["b"].entry = None

\* C13: in a build with entry and description, update(n, ...) of an existing
\* entry stores a present entry or description argument and leaves the stored
\* value alone when the argument is absent.
C13_UpdateMergesClientFields ==
    [][(call'.op = "update_package" /\ call'.name \in DOMAIN packages) =>
        \A f \in {"entry", "description"} :
            packages'[call'.name][f] =
                IF IsSome(call'.args[f]) THEN call'.args[f] ELSE packages[call'.name][f]]_vars

\* C15: from_url never reads the HTTP status: once the transport has succeeded,
\* a fetch succeeds exactly when the body parses, whatever the status, and a
\* refresh answered with a non-success status and a body that parses returns Ok
\* and leaves the registry holding what that body says.
C15_StatusNotChecked ==
    /\ \A r \in DescriptorResponses :
          from_url_PackageInfo(r) = from_url_PackageInfo([r EXCEPT !.status = 200])
    /\ (call.op = "fetch_update_repo_info" /\ call.args.transport = "ok")
       => /\ IsOk(result) <=> IsOk(from_str_to(call.args.body))
          /\ (~is_success(call.args.status) /\ IsOk(from_str_to(call.args.body)))
             => /\ result = Ok(Unit)
                /\ DocSays(call.args.body, packages)

\* a refresh of an empty registry answered 404 with a document of two packages
C15_Witness ==
    /\ call.op = "fetch_update_repo_info"
    /\ call.args.transport = "ok"
    /\ call.args.status = 404
    /\ call.before = {}
    /\ result = Ok(Unit)
    /\ DOMAIN packages = Names

-----------------------------------------------------------------------------
(* Properties of the network operations, under FetchSpec *)

\* the last call was a fetch_package or get_single_package_info and has returned
Returned(op) == call.op = op /\ pc = "idle"

\* C11: get_single_package_info(n) and fetch_package(n) on a name the registry does
\* not hold return PackageNotFound(n), make no HTTP request and leave every file of
\* the temporary directory as it was.
C11_AbsentNameNoEffect ==
    [][(/\ pc = "idle"
        /\ call'.op \in {"get_single_package_info", "fetch_package"}
        /\ call'.name \notin DOMAIN packages)
       => /\ result' = Err(PackageNotFound(call'.name))
          /\ pc' = "idle"
          /\ requests' = << >>
          /\ files' = files]_vars

\* fetch_package of an absent name while the directory holds an earlier download
C11_Witness ==
    /\ Returned("fetch_package")
    /\ ~Had
    /\ result = Err(PackageNotFound(call.name))
    /\ requests = << >>
    /\ DOMAIN files # {}

\* C12: when the GET of the artifact is answered with a status that is not a
\* success, fetch_package returns a NetworkError and the file is neither created
\* nor emptied; the directory changes only once a second exchange has been
\* answered with a success status.
C12_StatusBeforeFile ==
    /\ [][(/\ pc = "get"
           /\ Len(requests') = 2
           /\ requests'[2].response.transport = "ok"
           /\ ~is_success(requests'[2].response.status))
          => /\ IsErr(result') /\ result'[2][1] = "NetworkError"
             /\ pc' = "idle"
             /\ files' = files]_vars
    /\ [][files' # files
          => /\ Len(requests) = 2
             /\ requests[2].response.transport = "ok"
             /\ is_success(requests[2].response.status)]_vars

\* the artifact answered 404 while an earlier download sits under the entry's file name
C12_Witness ==
    /\ Returned("fetch_package")
    /\ Len(requests) = 2
    /\ requests[2].response.status = 404
    /\ result[2][1] = "NetworkError"
    /\ packages[call.name].file_name \in DOMAIN files
    /\ files[packages[call.name].file_name] = <<Whole(0)>>

\* C14: for an entry whose url ends in its file_name, get_single_package_info(n)
\* asks for exactly one url: the entry's url with that trailing file_name replaced
\* by src/<n>/packageInfo.json and everything before it kept, also when the
\* file_name occurs earlier in the url.
C14_DescriptorLocation ==
    (/\ Returned("get_single_package_info")
     /\ Had
     /\ ends_with(Chars(packages[call.name].url), Chars(packages[call.name].file_name)))
    => LET url == Chars(packages[call.name].url)
           file_name == Chars(packages[call.name].file_name)
       IN  /\ Len(requests) = 1
           /\ requests[1].url =
                SubSeq(url, 1, Len(url) - Len(file_name)) \o descriptor_path(call.name)

\* the file fetch_package writes to, and chunks 1..n as whole pieces in order
Target == files[packages[call.name].file_name]
Chunks(n) == [i \in 1..n |-> Whole(i)]

\* C16: fetch_package writes the chunks of the artifact body to the file in the
\* order they arrive. When receiving a chunk fails, or writing chunk k fails, the
\* call returns an error at once and the file holds exactly the chunks written
\* before the failure; when the call returns Ok, the file holds exactly all chunks
\* in order and the value returned is the descriptor fetched.
C16_StreamingDownload ==
    /\ pc = "stream" => \A i \in 1..Len(Target) : Target[i] = Whole(i)
    /\ Returned("fetch_package") =>
          /\ IsOk(result) =>
                /\ result[2] = local.package_info[2]
                /\ Target = Chunks(Len(local.received))
          /\ result = Err(NetworkError("body")) => Target = Chunks(Len(local.received))
          /\ local.failed # {} =>
                /\ result = Err(IoError("write"))
                /\ local.failed = {Len(local.received)}
                /\ Target = Chunks(Len(local.received) - 1)

\* the results of the operations that return a CoreResult
CoreResults ==
    {"get_package", "remove_package", "fetch_update_repo_info",
     "get_single_package_info", "fetch_package"}

\* C17: fetch_package verifies no hash: no operation returns HashMismatch, and
\* at every turn of the download loop the value returned is the same whatever
\* hash the entry holds and whatever hash the descriptor carries (the descriptor
\* itself apart), so a download whose hashes disagree ends as one whose hashes agree.
C17_NoHashVerification ==
    /\ (call.op \in CoreResults /\ IsErr(result)) => result[2][1] # "HashMismatch"
    /\ pc = "stream" =>
          \A item \in StreamItems, wrote \in WriteOutcomes, h \in {"", "x"} :
              LET n == call.name
                  with == fetch_package_stream(packages, files, n, requests, local, item, wrote)
                  entry_h == fetch_package_stream([packages EXCEPT ![n].hash = h], files, n,
                                                  requests, local, item, wrote)
                  other == [local.package_info[2] EXCEPT !.hash = h]
                  descr_h == fetch_package_stream(packages, files, n, requests,
                                                  [local EXCEPT !.package_info = Some(other)],
                                                  item, wrote)
              IN  /\ entry_h.result = with.result
                  /\ descr_h.result =
                        IF IsOk(with.result) THEN Ok(other) ELSE with.result
                  /\ entry_h.files = with.files /\ descr_h.files = with.files

\* a download that returned Ok although the descriptor's hash is not the entry's
C17_Witness ==
    /\ Returned("fetch_package")
    /\ IsOk(result)
    /\ result[2].hash = "x"
    /\ packages[call.name].hash = ""
    /\ Target = Chunks(2)

\* an exchange that gave from_url nothing to return: the transport failed or the
\* body did not parse as a descriptor
FailedFetch(x) == IsErr(from_url_PackageInfo(x.response))

\* what the exchanges and writes of the last call say about retries and failures
NoRetry ==
    /\ call.op = "fetch_update_repo_info" => Len(requests) = 1
    /\ Returned("get_single_package_info") => Len(requests) = IF Had THEN 1 ELSE 0
    /\ call.op = "fetch_package" =>
          /\ Len(requests) <= 2
          /\ \A i \in 1..Len(requests) : requests[i].url = Chars(packages[call.name].url)
          /\ (Len(requests) >= 1 /\ FailedFetch(requests[1])) =>
                /\ Len(requests) = 1 /\ pc = "idle" /\ IsErr(result)
          /\ (Len(requests) = 2 /\ ~(/\ requests[2].response.transport = "ok"
                                     /\ is_success(requests[2].response.status))) =>
                /\ pc = "idle" /\ IsErr(result)
          /\ (pc = "idle" /\ local.failed # {}) =>
                /\ IsErr(result)
                /\ \A i \in 1..Len(Target) : \A k \in local.failed : Target[i].chunk <= k

\* C18: no network operation repeats a request: a refresh makes one GET,
\* get_single_package_info one, fetch_package at most two, both to the entry's
\* url. Once a step has failed the call returns an error and makes no further
\* request and no further write: a fetch_package whose descriptor fetch failed
\* has sent one GET and left the directory as it was, and a fetch_package one of
\* whose writes failed returns an error with no later chunk in the file.
C18_NoRetryFailFast ==
    /\ NoRetry
    /\ [][/\ NoRetry'
          /\ (call'.op = "fetch_package" /\ pc = "idle" /\ pc' = "idle") => files' = files]_vars

\* C19: add_package(n), add_package_with_info(n), update_package(n) and
\* remove_package(n) leave has(m) and every field of m's entry as they were for
\* every other name m; get_single_package_info and every step of fetch_package
\* leave the whole package map as it was, whatever they return.
C19_OneKeyOnly ==
    [][/\ call'.op \in {"add_package", "add_package_with_info", "update_package",
                        "remove_package"}
          => \A m \in Names \ {call'.name} :
                /\ HasIn(packages', m) = HasIn(packages, m)
                /\ GetIn(packages', m) = GetIn(packages, m)
       /\ call'.op \in {"get_single_package_info", "fetch_package"}
          => packages' = packages]_vars

\* a remove of one name while another name is held
C19_Witness ==
    /\ call.op = "remove_package"
    /\ call.before = Names
    /\ IsOk(result)
    /\ DOMAIN packages = Names \ {call.name}

=============================================================================
